---- MODULE Spec2Model ----
(***************************************************************************)
(* Model of bil-cs2-parser (src/main.py): the flattening of one match      *)
(* document into per-round rows (flatten_game), the batch runner           *)
(* (game_extractor, process_games, save_flattened_game) and the run of     *)
(* main with its broker connection (init_rabbitmq, publish_to_rabbitmq).   *)
(***************************************************************************)
EXTENDS Integers, Sequences, FiniteSets, TLC

VARIABLES
    files,          \* the *.json files of GAMES_RAW_DIR, in glob order
    idx,            \* game_extractor: index of the next file to open
    game,           \* the document handed to flatten_game
    flat_data,      \* what flatten_game gave: returned rows or a raised error
    parsed_games,   \* process_games: the result list
    outdir,         \* GAMES_FLATTEN_DIR: file name -> rows written
    conn,           \* the pika connection: "none", "open", "closed"
    opened,         \* how many connections were opened
    setup_step,     \* init_rabbitmq: channel/exchange/queue/bind calls done
    published,      \* messages handed to the exchange
    error,          \* the exception that left main, NoError while none
    pc              \* position of the run

vars == <<files, idx, game, flat_data, parsed_games, outdir, conn, opened,
          setup_step, published, error, pc>>

(***************************************************************************)
(* JSON values as json.load builds them, tagged by their Python type.      *)
(* A key that is absent from an object is absent from DOMAIN v.f.          *)
(***************************************************************************)
JNull == [t |-> "null"]
JStr(s) == [t |-> "str", v |-> s]
JInt(n) == [t |-> "int", n |-> n]
JObj(f) == [t |-> "obj", f |-> f]
JList(items) == [t |-> "list", items |-> items]
EmptyDict == JObj(<<>>)
EmptyList == JList(<<>>)

\* Python truth value: None, 0, "", {} and [] are false.
Truthy(v) ==
    CASE v.t = "null" -> FALSE
      [] v.t = "str" -> v.v # ""
      [] v.t = "int" -> v.n # 0
      [] v.t = "obj" -> DOMAIN v.f # {}
      [] v.t = "list" -> v.items # <<>>

IsDict(v) == v.t = "obj"

\* d.get(k, default) of a dict d.
DictGet(d, k, default) == IF k \in DOMAIN d.f THEN d.f[k] ELSE default

\* Usable as a dict key (dicts and lists are unhashable).
Hashable(v) == v.t \notin {"obj", "list"}

\* len(v) is defined for lists and dicts; TypeError for None and numbers.
HasLen(v) == v.t \in {"list", "obj"}
PyLen(v) == IF v.t = "list" THEN Len(v.items) ELSE Cardinality(DOMAIN v.f)

\* v[0] of a non-empty v: the first item of a list; KeyError on a dict
\* (JSON keys are strings).
HasFirst(v) == v.t = "list"

(***************************************************************************)
(* flatten_game                                                            *)
(***************************************************************************)
NoResult == [raised |-> "not called", rows |-> <<>>]
Return(rows) == [raised |-> "", rows |-> rows]
Raise(e) == [raised |-> e, rows |-> <<>>]

\* dateutil.parser.parse followed by isoformat(), on the timestamps of the
\* input space; any other string (and None) makes parse raise.
KnownDates ==
    ("2024-01-01T00:00:00Z" :> "2024-01-01T00:00:00+00:00")
    @@ ("2024-03-05 18:30" :> "2024-03-05T18:30:00")

ParseOk(v) == v.t = "str" /\ v.v \in DOMAIN KnownDates
IsoFormat(v) == JStr(KnownDates[v.v])

SerieTier(tier) ==
    IF tier.t = "str" /\ tier.v \in {"s", "a", "b", "c", "d"}
    THEN JInt(CASE tier.v = "s" -> 1 [] tier.v = "a" -> 2 [] tier.v = "b" -> 3
                [] tier.v = "c" -> 4 [] tier.v = "d" -> 5)
    ELSE JNull

Outcome(o) ==
    IF o.t = "str" /\ o.v \in {"exploded", "defused", "eliminated", "timeout"}
    THEN JInt(CASE o.v = "exploded" -> 1 [] o.v = "defused" -> 2
                [] o.v = "eliminated" -> 3 [] o.v = "timeout" -> 4)
    ELSE JNull

StatKeys == {"adr", "kast", "rating", "kills", "deaths", "assists",
             "headshots", "flash_assists", "first_kills_diff", "k_d_diff"}

\* {k: p.get(k, 0) for k in [...]}: the default applies to an absent key only.
PlayerStat(p) == [k \in StatKeys |-> DictGet(p, k, JInt(0))]

\* int(x): the integer itself, the value of a decimal string, ValueError for
\* any other string, TypeError for a list or a dict.
IntLiterals == ("1" :> 1) @@ ("2" :> 2) @@ ("16" :> 16)
IntOk(x) == x.t = "int" \/ (x.t = "str" /\ x.v \in DOMAIN IntLiterals)
PyInt(x) == IF x.t = "int" THEN x.n ELSE IntLiterals[x.v]

\* f with key k set to v (a dict assignment).
Put(f, k, v) == [x \in DOMAIN f \cup {k} |-> IF x = k THEN v ELSE f[x]]

\* The state of the loop over players (lines 117-142): the team keys of
\* dd_team_players in insertion order, dd_team_players, d_teams,
\* d_player_stat, and the error raised, if any.
EmptyIndex == [order |-> <<>>, dd |-> <<>>, teams |-> <<>>, stat |-> <<>>,
               raised |-> ""]

\* p.get(k, {}).get("id") raises AttributeError when p[k] is not a dict.
SubIdOk(p, k) == IsDict(DictGet(p, k, EmptyDict))
SubId(p, k) == DictGet(DictGet(p, k, EmptyDict), "id", JNull)

PlayerStep(acc, p) ==
    IF ~IsDict(p) THEN [acc EXCEPT !.raised = "AttributeError"]
    ELSE IF ~(SubIdOk(p, "player") /\ SubIdOk(p, "team") /\ SubIdOk(p, "opponent"))
    THEN [acc EXCEPT !.raised = "AttributeError"]
    ELSE LET p_id == SubId(p, "player")
             t_id == SubId(p, "team")
             opp_id == SubId(p, "opponent")
         IN IF ~(Truthy(p_id) /\ Truthy(t_id) /\ Truthy(opp_id)) THEN acc
            ELSE IF ~(Hashable(p_id) /\ Hashable(t_id))
            THEN [acc EXCEPT !.raised = "TypeError"]
            ELSE [order |-> IF t_id \in DOMAIN acc.dd THEN acc.order
                            ELSE Append(acc.order, t_id),
                  dd |-> Put(acc.dd, t_id,
                             IF t_id \in DOMAIN acc.dd
                             THEN Append(acc.dd[t_id], p_id) ELSE <<p_id>>),
                  teams |-> Put(acc.teams, t_id, opp_id),
                  stat |-> Put(acc.stat, p_id, PlayerStat(p)),
                  raised |-> ""]

RECURSIVE PlayersLoop(_, _, _)
PlayersLoop(players, i, acc) ==
    IF i > Len(players) \/ acc.raised # "" THEN acc
    ELSE PlayersLoop(players, i + 1, PlayerStep(acc, players[i]))

\* RoundStep with the winner compared with the row's team only: a round the
\* opponent won is skipped.
RoundStep_WonOnly(rnd, t_id, t_opp_id) ==
    IF ~IsDict(rnd) THEN "AttributeError"
    ELSE LET ct_id == DictGet(rnd, "ct", JNull)
             terrorists_id == DictGet(rnd, "terrorists", JNull)
             rnd_number == DictGet(rnd, "round", JNull)
             winner_team == DictGet(rnd, "winner_team", JNull)
         IN IF ~(Truthy(ct_id) /\ Truthy(terrorists_id)) THEN "skip"
            ELSE IF ~Truthy(rnd_number) THEN "skip"
            ELSE IF ct_id \notin {t_id, t_opp_id}
                    \/ terrorists_id \notin {t_id, t_opp_id} THEN "skip"
            ELSE IF ~Truthy(winner_team) \/ winner_team # t_id THEN "skip"
            ELSE IF ~IntOk(rnd_number)
            THEN (IF rnd_number.t = "str" THEN "ValueError" ELSE "TypeError")
            ELSE IF ~Hashable(DictGet(rnd, "outcome", JNull)) THEN "TypeError"
            ELSE "emit"

\* The checks of one round for the pairing (t_id, t_opp_id), lines 157-171,
\* and the conversions of the row literal, lines 186-193.
RoundStep(rnd, t_id, t_opp_id) ==
    IF ~IsDict(rnd) THEN "AttributeError"
    ELSE LET ct_id == DictGet(rnd, "ct", JNull)
             terrorists_id == DictGet(rnd, "terrorists", JNull)
             rnd_number == DictGet(rnd, "round", JNull)
             winner_team == DictGet(rnd, "winner_team", JNull)
         IN IF ~(Truthy(ct_id) /\ Truthy(terrorists_id)) THEN "skip"
            ELSE IF ~Truthy(rnd_number) THEN "skip"
            ELSE IF ct_id \notin {t_id, t_opp_id}
                    \/ terrorists_id \notin {t_id, t_opp_id} THEN "skip"
            ELSE IF ~Truthy(winner_team) \/ winner_team \notin {t_id, t_opp_id}
            THEN "skip"
            ELSE IF ~IntOk(rnd_number)
            THEN (IF rnd_number.t = "str" THEN "ValueError" ELSE "TypeError")
            ELSE IF ~Hashable(DictGet(rnd, "outcome", JNull)) THEN "TypeError"
            ELSE "emit"

BoolInt(b) == JInt(IF b THEN 1 ELSE 0)

\* The row literal of lines 173-195.
Row(head, stat, t_id, t_opp_id, p_id, p_opp_id, rnd) ==
    head @@ stat @@
    [team_id |-> t_id,
     team_opponent_id |-> t_opp_id,
     player_id |-> p_id,
     player_opponent_id |-> p_opp_id,
     round |-> JInt(PyInt(DictGet(rnd, "round", JNull))),
     is_ct |-> BoolInt(t_id = DictGet(rnd, "ct", JNull)),
     outcome |-> Outcome(DictGet(rnd, "outcome", JNull)),
     win |-> BoolInt(DictGet(rnd, "winner_team", JNull) = t_id)]

\* The first round, from index j on, whose RoundStep raises; "" when none.
RECURSIVE FirstRaise(_, _, _, _)
FirstRaise(rounds, j, t_id, t_opp_id) ==
    IF j > Len(rounds) THEN ""
    ELSE LET s == RoundStep(rounds[j], t_id, t_opp_id)
         IN IF s \in {"skip", "emit"}
            THEN FirstRaise(rounds, j + 1, t_id, t_opp_id) ELSE s

\* One pass of the loop over dd_team_players.items() (lines 147-196) for
\* team t_id: the rows it appends, or the error it raises.  Both rosters are
\* non-empty when the round loop is reached, so a raising round is reached
\* before any later row matters.
TeamRows(head, ix, rounds, t_id) ==
    LET p_ids == ix.dd[t_id]
        t_opp_id == DictGet(JObj(ix.teams), t_id, JNull)
    IN IF Cardinality({p_ids[i] : i \in DOMAIN p_ids}) # 5 THEN Return(<<>>)
       ELSE IF ~Truthy(t_opp_id) THEN Return(<<>>)
       ELSE IF ~Hashable(t_opp_id) THEN Raise("TypeError")
       ELSE IF t_opp_id \notin DOMAIN ix.dd THEN Return(<<>>)
       ELSE LET p_opp_ids == ix.dd[t_opp_id]
                err == FirstRaise(rounds, 1, t_id, t_opp_id)
                kept == SelectSeq(rounds,
                            LAMBDA r : RoundStep(r, t_id, t_opp_id) = "emit")
                no == Len(p_opp_ids)
                nr == Len(kept)
            IN IF err # "" THEN Raise(err)
               ELSE Return([k \in 1 .. (Len(p_ids) * no * nr) |->
                        Row(head, ix.stat[p_ids[((k - 1) \div (no * nr)) + 1]],
                            t_id, t_opp_id,
                            p_ids[((k - 1) \div (no * nr)) + 1],
                            p_opp_ids[(((k - 1) \div nr) % no) + 1],
                            kept[((k - 1) % nr) + 1])])

RECURSIVE TeamsLoop(_, _, _, _, _)
TeamsLoop(head, ix, rounds, i, acc) ==
    IF i > Len(ix.order) \/ acc.raised # "" THEN acc
    ELSE LET r == TeamRows(head, ix, rounds, ix.order[i])
         IN TeamsLoop(head, ix, rounds, i + 1,
                      IF r.raised # "" THEN r ELSE Return(acc.rows \o r.rows))

MinRounds == 16
NumPlayers == 10

flatten_game(g) ==
    LET game_id == DictGet(g, "id", JNull)
        begin_at == DictGet(g, "begin_at", JNull)
        map == DictGet(g, "map", EmptyDict)
        match == DictGet(g, "match", EmptyDict)
    IN
    IF ~Truthy(game_id) THEN Return(<<>>)
    ELSE IF ~ParseOk(begin_at) THEN Return(<<>>)
    ELSE IF ~IsDict(map) THEN Raise("AttributeError")
    ELSE IF ~Truthy(DictGet(map, "id", JNull)) THEN Return(<<>>)
    ELSE IF ~IsDict(match) THEN Raise("AttributeError")
    ELSE IF ~IsDict(DictGet(match, "league", EmptyDict)) THEN Raise("AttributeError")
    ELSE LET serie == DictGet(match, "serie", EmptyDict) IN
    IF ~IsDict(serie) THEN Raise("AttributeError")
    ELSE IF ~Hashable(DictGet(serie, "tier", JNull)) THEN Raise("TypeError")
    ELSE IF ~IsDict(DictGet(match, "tournament", EmptyDict)) THEN Raise("AttributeError")
    ELSE LET players == DictGet(g, "players", EmptyList) IN
    IF ~HasLen(players) THEN Raise("TypeError")
    ELSE IF PyLen(players) # NumPlayers THEN Return(<<>>)
    ELSE IF players.t # "list" THEN Raise("AttributeError")
    ELSE LET ix == PlayersLoop(players.items, 1, EmptyIndex) IN
    IF ix.raised # "" THEN Raise(ix.raised)
    ELSE LET rounds == DictGet(g, "rounds", EmptyList) IN
    IF ~HasLen(rounds) THEN Raise("TypeError")
    ELSE IF PyLen(rounds) < MinRounds \/ ~Truthy(rounds) THEN Return(<<>>)
    ELSE IF ~HasFirst(rounds) THEN Raise("KeyError")
    ELSE IF ~IsDict(rounds.items[1]) THEN Raise("AttributeError")
    ELSE IF DictGet(rounds.items[1], "round", JNull) # JInt(1) THEN Return(<<>>)
    ELSE TeamsLoop(
            [game_id |-> game_id,
             begin_at |-> IsoFormat(begin_at),
             map_id |-> DictGet(map, "id", JNull),
             league_id |-> DictGet(DictGet(match, "league", EmptyDict), "id", JNull),
             serie_id |-> DictGet(serie, "id", JNull),
             serie_tier |-> SerieTier(DictGet(serie, "tier", JNull)),
             tournament_id |-> DictGet(DictGet(match, "tournament", EmptyDict), "id", JNull)],
            ix, rounds.items, 1, Return(<<>>))


(***************************************************************************)
(* The documents of the input space.  The well-formed ones are the fixture *)
(* of test_flatten_game_valid and its variations; the others change one    *)
(* part of it into a shape json.load can also deliver.                     *)
(***************************************************************************)
T1 == JStr("t1")
T2 == JStr("t2")
T3 == JStr("t3")
PlayerNames == <<"p0", "p1", "p2", "p3", "p4", "p5", "p6", "p7", "p8", "p9", "p10">>
P(i) == JStr(PlayerNames[i])

Without(f, k) == [x \in DOMAIN f \ {k} |-> f[x]]

BaseMatch ==
    [league |-> JObj([id |-> JStr("l1")]),
     tournament |-> JObj([id |-> JStr("t1")]),
     serie |-> JObj([id |-> JStr("s1"), tier |-> JStr("a")])]

BaseHeader(gid) ==
    [id |-> JStr(gid),
     begin_at |-> JStr("2024-01-01T00:00:00Z"),
     map |-> JObj([id |-> JStr("m1")]),
     match |-> JObj(BaseMatch)]

HeaderKinds ==
    {"fixture", "no_id", "id_null", "id_empty", "begin_bad", "begin_null",
     "begin_other", "no_map", "map_null", "map_no_id", "no_match", "match_null",
     "league_null", "serie_null", "tournament_null", "tier_unknown"}

Header(gid, hk) ==
    LET b == BaseHeader(gid) IN
    CASE hk = "fixture" -> b
      [] hk = "no_id" -> Without(b, "id")
      [] hk = "id_null" -> [b EXCEPT !.id = JNull]
      [] hk = "id_empty" -> [b EXCEPT !.id = JStr("")]
      [] hk = "begin_bad" -> [b EXCEPT !.begin_at = JStr("??")]
      [] hk = "begin_null" -> [b EXCEPT !.begin_at = JNull]
      [] hk = "begin_other" -> [b EXCEPT !.begin_at = JStr("2024-03-05 18:30")]
      [] hk = "no_map" -> Without(b, "map")
      [] hk = "map_null" -> [b EXCEPT !.map = JNull]
      [] hk = "map_no_id" -> [b EXCEPT !.map = EmptyDict]
      [] hk = "no_match" -> Without(b, "match")
      [] hk = "match_null" -> [b EXCEPT !.match = JNull]
      [] hk = "league_null" -> [b EXCEPT !.match = JObj([BaseMatch EXCEPT !.league = JNull])]
      [] hk = "serie_null" -> [b EXCEPT !.match = JObj([BaseMatch EXCEPT !.serie = JNull])]
      [] hk = "tournament_null" ->
            [b EXCEPT !.match = JObj([BaseMatch EXCEPT !.tournament = JNull])]
      [] hk = "tier_unknown" ->
            [b EXCEPT !.match =
                JObj([BaseMatch EXCEPT !.serie = JObj([id |-> JStr("s1"), tier |-> JStr("z")])])]

AllStats(i) == [k \in StatKeys |-> JInt(IF k = "kills" THEN i ELSE 20 + i)]

Participation(pid, tid, oppid, stats) ==
    JObj([player |-> JObj([id |-> pid]), team |-> JObj([id |-> tid]),
          opponent |-> JObj([id |-> oppid])] @@ stats)

PlayersKinds ==
    {"fixture", "interleaved", "stats", "partial_stats", "null_stat",
     "short", "long", "players_null", "players_absent", "entry_null",
     "player_null", "team_no_id", "five_three_two", "five_three",
     "self_opponent", "dangling", "repeat_player", "four_distinct",
     "shared_player"}

PlayerEntry(pk, i) ==
    LET first == i <= 5
        fx(stats) == Participation(P(i), IF first THEN T1 ELSE T2,
                                   IF first THEN T2 ELSE T1, stats)
    IN
    CASE pk = "interleaved" ->
            Participation(P(i), IF i % 2 = 1 THEN T1 ELSE T2,
                          IF i % 2 = 1 THEN T2 ELSE T1, <<>>)
      [] pk = "stats" -> fx(AllStats(i))
      [] pk = "partial_stats" -> fx([kills |-> JInt(i), deaths |-> JInt(3)])
      [] pk = "null_stat" ->
            fx(IF i \in {1, 6} THEN [AllStats(i) EXCEPT !["kills"] = JNull]
               ELSE AllStats(i))
      [] pk = "entry_null" -> IF i = 3 THEN JNull ELSE fx(<<>>)
      [] pk = "player_null" ->
            IF i = 3 THEN JObj([player |-> JNull, team |-> JObj([id |-> T1]),
                                opponent |-> JObj([id |-> T2])])
            ELSE fx(<<>>)
      [] pk = "team_no_id" ->
            IF i = 8 THEN JObj([player |-> JObj([id |-> P(i)]), team |-> EmptyDict,
                                opponent |-> JObj([id |-> T1])])
            ELSE fx(<<>>)
      [] pk = "five_three_two" ->
            IF i <= 8 THEN fx(<<>>) ELSE Participation(P(i), T3, T1, <<>>)
      [] pk = "five_three" ->
            IF i <= 8 THEN fx(<<>>)
            ELSE JObj([team |-> JObj([id |-> T2]), opponent |-> JObj([id |-> T1])])
      [] pk = "self_opponent" -> Participation(P(i), IF first THEN T1 ELSE T2, T1, <<>>)
      [] pk = "dangling" ->
            Participation(P(i), IF first THEN T1 ELSE T2, IF first THEN T3 ELSE T1, <<>>)
      [] pk = "repeat_player" ->
            IF i = 6 THEN Participation(P(1), T1, T2, <<>>) ELSE fx(<<>>)
      [] pk = "four_distinct" ->
            IF i = 5 THEN Participation(P(1), T1, T2, <<>>) ELSE fx(<<>>)
      [] pk = "shared_player" ->
            IF i = 6 THEN Participation(P(1), T2, T1, AllStats(i)) ELSE fx(AllStats(i))
      [] OTHER -> fx(<<>>)

Players(pk) ==
    JList([i \in 1 .. (CASE pk = "short" -> NumPlayers - 1
                         [] pk = "long" -> NumPlayers + 1
                         [] OTHER -> NumPlayers) |-> PlayerEntry(pk, i)])

OutcomeNames == <<"exploded", "defused", "eliminated", "timeout">>

\* The fixture's round (every round numbered 1, t1 on the CT side and
\* winning), and a played match's: numbered from 1, sides swapped after the
\* first half, winners alternating.
FixtureRound ==
    [round |-> JInt(1), ct |-> T1, terrorists |-> T2, winner_team |-> T1,
     outcome |-> JStr("eliminated")]

PlayedRound(i) ==
    [round |-> JInt(i),
     ct |-> IF i <= 12 THEN T1 ELSE T2,
     terrorists |-> IF i <= 12 THEN T2 ELSE T1,
     winner_team |-> IF i % 2 = 1 THEN T1 ELSE T2,
     outcome |-> JStr(OutcomeNames[(i % 4) + 1])]

CleanRoundsKinds == {"fixture", "played"}
DefectRoundsKinds ==
    {"first_two", "first_str", "first_absent", "ct_missing", "same_side",
     "third_side", "winner_null", "winner_third", "num_null", "num_zero",
     "num_str", "num_bad", "num_list", "entry_null", "outcome_unknown",
     "outcome_absent", "first_only"}
DefectAt == 2

RoundEntry(rk, i) ==
    LET b == PlayedRound(i) IN
    CASE rk = "fixture" -> JObj(FixtureRound)
      [] rk = "first_two" /\ i = 1 -> JObj([b EXCEPT !.round = JInt(2)])
      [] rk = "first_str" /\ i = 1 -> JObj([b EXCEPT !.round = JStr("1")])
      [] rk = "first_absent" /\ i = 1 -> JObj(Without(b, "round"))
      [] rk = "ct_missing" /\ i = DefectAt -> JObj(Without(b, "ct"))
      [] rk = "same_side" /\ i = DefectAt ->
            JObj([b EXCEPT !.ct = T1, !.terrorists = T1, !.winner_team = T1])
      [] rk = "third_side" /\ i = DefectAt -> JObj([b EXCEPT !.ct = T3])
      [] rk = "winner_null" /\ i = DefectAt -> JObj([b EXCEPT !.winner_team = JNull])
      [] rk = "winner_third" /\ i = DefectAt -> JObj([b EXCEPT !.winner_team = T3])
      [] rk = "num_null" /\ i = DefectAt -> JObj([b EXCEPT !.round = JNull])
      [] rk = "num_zero" /\ i = DefectAt -> JObj([b EXCEPT !.round = JInt(0)])
      [] rk = "num_str" /\ i = DefectAt -> JObj([b EXCEPT !.round = JStr("2")])
      [] rk = "num_bad" /\ i = DefectAt -> JObj([b EXCEPT !.round = JStr("x")])
      [] rk = "num_list" /\ i = DefectAt -> JObj([b EXCEPT !.round = JList(<<JInt(2)>>)])
      [] rk = "entry_null" /\ i = DefectAt -> JNull
      [] rk = "outcome_unknown" -> JObj([b EXCEPT !.outcome = JStr("slip-n-slide")])
      [] rk = "outcome_absent" -> JObj(Without(b, "outcome"))
      [] rk = "first_only" /\ i > 1 -> JObj([round |-> JInt(i)])
      [] OTHER -> JObj(b)

Rounds(rk, R) == JList([i \in 1 .. R |-> RoundEntry(rk, i)])

MaxRounds == 17

RoundsShapes ==
    {<<rk, R>> : rk \in CleanRoundsKinds, R \in (MinRounds - 1) .. MaxRounds}
    \cup {<<rk, MinRounds>> : rk \in DefectRoundsKinds}
    \cup {<<"rounds_null", 0>>, <<"rounds_absent", 0>>}

Game(gid, hk, pk, rs) ==
    LET h == Header(gid, hk)
        hp == CASE pk = "players_absent" -> h
                [] pk = "players_null" -> h @@ [players |-> JNull]
                [] OTHER -> h @@ [players |-> Players(pk)]
    IN JObj(CASE rs[1] = "rounds_absent" -> hp
              [] rs[1] = "rounds_null" -> hp @@ [rounds |-> JNull]
              [] OTHER -> hp @@ [rounds |-> Rounds(rs[1], rs[2])])

(***************************************************************************)
(* flatten_game applied to one document.                                   *)
(***************************************************************************)
FlattenInit ==
    /\ \E hk \in HeaderKinds, pk \in PlayersKinds, rs \in RoundsShapes :
          game = Game("g1", hk, pk, rs)
    /\ flat_data = NoResult
    /\ pc = "call"
    /\ files = <<>> /\ idx = 1 /\ parsed_games = <<>> /\ outdir = <<>>
    /\ conn = "none" /\ opened = 0 /\ setup_step = 0 /\ published = 0
    /\ error = ""

FlattenCall ==
    /\ pc = "call"
    /\ flat_data' = flatten_game(game)
    /\ pc' = "returned"
    /\ UNCHANGED <<files, idx, game, parsed_games, outdir, conn, opened,
                   setup_step, published, error>>

FlattenNext == FlattenCall

SpecFlatten == FlattenInit /\ [][FlattenNext]_vars


(***************************************************************************)
(* The run of main: init_rabbitmq, then process_games inside try, then     *)
(* publish_to_rabbitmq, then connection.close() in finally.                *)
(***************************************************************************)
\* What a file of the input directory holds: a document json.load returns,
\* or content on which open/json.load raise OSError/JSONDecodeError.  The
\* two matches that give rows have a single round with sides recorded, so
\* each gives 5 x 5 x 1 x 2 rows.
Unparseable == [ok |-> FALSE, doc |-> JNull]
Parseable(d) == [ok |-> TRUE, doc |-> d]

FileChoices ==
    {Unparseable,
     Parseable(Game("g1", "fixture", "fixture", <<"first_only", MinRounds>>)),
     Parseable(Game("g2", "tier_unknown", "stats", <<"first_only", MinRounds>>)),
     Parseable(EmptyDict),
     Parseable(Game("g3", "map_null", "fixture", <<"fixture", MinRounds>>)),
     Parseable(Game("g4", "fixture", "short", <<"played", MinRounds>>))}

MaxFiles == 3

RECURSIVE SeqsUpTo(_, _)
SeqsUpTo(S, n) ==
    IF n = 0 THEN {<<>>}
    ELSE LET shorter == SeqsUpTo(S, n - 1)
         IN shorter \cup {Append(q, x) : q \in {r \in shorter : Len(r) = n - 1}, x \in S}

\* str(game_id) inside the f-string of save_flattened_game.
PyStr(v) ==
    CASE v.t = "str" -> v.v
      [] v.t = "int" -> ToString(v.n)
      [] v.t = "null" -> "None"
FileName(game_id) == <<PyStr(game_id), ".json">>

NumSetupCalls == 4

ConnectErrors == {"AMQPConnectionError"}
SetupErrors == {"ChannelClosedByBroker"}
PublishErrors == {"UnroutableError"}
SaveErrors == {"OSError"}

Init ==
    /\ files \in SeqsUpTo(FileChoices, MaxFiles)
    /\ idx = 1
    /\ game = JNull
    /\ flat_data = NoResult
    /\ parsed_games = <<>>
    /\ outdir = <<>>
    /\ conn = "none"
    /\ opened = 0
    /\ setup_step = 0
    /\ published = 0
    /\ error = ""
    /\ pc = "init_rabbitmq"

\* pika.BlockingConnection(params), line 48; it is called before the try.
Connect ==
    /\ pc = "init_rabbitmq"
    /\ \/ /\ conn' = "open"
          /\ opened' = opened + 1
          /\ pc' = "setup"
          /\ error' = error
       \/ /\ error' \in ConnectErrors
          /\ pc' = "done"
          /\ UNCHANGED <<conn, opened>>
    /\ UNCHANGED <<files, idx, game, flat_data, parsed_games, outdir,
                   setup_step, published>>

\* connection.channel(), exchange_declare, queue_declare, queue_bind, lines
\* 49-58, still before the try: an error here leaves main at once.
Setup ==
    /\ pc = "setup"
    /\ \/ /\ setup_step' = setup_step + 1
          /\ pc' = IF setup_step + 1 = NumSetupCalls THEN "extract" ELSE "setup"
          /\ error' = error
       \/ /\ error' \in SetupErrors
          /\ pc' = "done"
          /\ setup_step' = setup_step
    /\ UNCHANGED <<files, idx, game, flat_data, parsed_games, outdir, conn,
                   opened, published>>

\* The first next() of game_extractor: the glob and the check of lines 77-79.
ExtractorStart ==
    /\ pc = "extract"
    /\ \/ /\ files = <<>>
          /\ error' = "FileNotFoundError"
          /\ pc' = "finally"
       \/ /\ files # <<>>
          /\ error' = error
          /\ pc' = "next"
    /\ UNCHANGED <<files, idx, game, flat_data, parsed_games, outdir, conn,
                   opened, setup_step, published>>

\* ExtractorNext without the except clause: a file that cannot be read or
\* decoded ends the run.
ExtractorNext_NoCatch ==
    /\ pc = "next"
    /\ idx <= Len(files)
    /\ idx' = idx + 1
    /\ \/ /\ files[idx].ok
          /\ game' = files[idx].doc
          /\ pc' = "flatten"
          /\ error' = error
       \/ /\ ~files[idx].ok
          /\ game' = game
          /\ pc' = "finally"
          /\ error' = "JSONDecodeError"
    /\ UNCHANGED <<files, flat_data, parsed_games, outdir, conn, opened,
                   setup_step, published>>

\* One pass of the for loop of lines 80-85: the file is yielded, or skipped
\* with a warning.
ExtractorNext ==
    /\ pc = "next"
    /\ idx <= Len(files)
    /\ idx' = idx + 1
    /\ \/ /\ files[idx].ok
          /\ game' = files[idx].doc
          /\ pc' = "flatten"
       \/ /\ ~files[idx].ok
          /\ game' = game
          /\ pc' = "next"
    /\ UNCHANGED <<files, flat_data, parsed_games, outdir, conn, opened,
                   setup_step, published, error>>

\* flat_data = flatten_game(game); if flat_data: (lines 203-204).
Flatten ==
    /\ pc = "flatten"
    /\ flat_data' = flatten_game(game)
    /\ \/ /\ flat_data'.raised # ""
          /\ error' = flat_data'.raised
          /\ pc' = "finally"
       \/ /\ flat_data'.raised = ""
          /\ flat_data'.rows # <<>>
          /\ error' = error
          /\ pc' = "save"
       \/ /\ flat_data'.raised = ""
          /\ flat_data'.rows = <<>>
          /\ error' = error
          /\ pc' = "next"
    /\ UNCHANGED <<files, idx, game, parsed_games, outdir, conn, opened,
                   setup_step, published>>

\* game_id = flat_data[0]["game_id"]; save_flattened_game(...), lines
\* 205-206 and 88-93: the file named by the id is written whole.
Save ==
    /\ pc = "save"
    /\ \/ /\ outdir' = Put(outdir, FileName(flat_data.rows[1].game_id), flat_data.rows)
          /\ error' = error
          /\ pc' = "append"
       \/ /\ error' \in SaveErrors
          /\ outdir' = outdir
          /\ pc' = "finally"
    /\ UNCHANGED <<files, idx, game, flat_data, parsed_games, conn, opened,
                   setup_step, published>>

\* AppendId inserting at the front of the list.
AppendId_Prepend ==
    /\ pc = "append"
    /\ parsed_games' = <<flat_data.rows[1].game_id>> \o parsed_games
    /\ pc' = "next"
    /\ UNCHANGED <<files, idx, game, flat_data, outdir, conn, opened,
                   setup_step, published, error>>

\* parsed_games.append(game_id), line 207.
AppendId ==
    /\ pc = "append"
    /\ parsed_games' = Append(parsed_games, flat_data.rows[1].game_id)
    /\ pc' = "next"
    /\ UNCHANGED <<files, idx, game, flat_data, outdir, conn, opened,
                   setup_step, published, error>>

\* The generator is exhausted: return parsed_games (line 208), and main logs
\* the count (line 218).
ProcessReturn ==
    /\ pc = "next"
    /\ idx > Len(files)
    /\ pc' = "publish"
    /\ UNCHANGED <<files, idx, game, flat_data, parsed_games, outdir, conn,
                   opened, setup_step, published, error>>

\* publish_to_rabbitmq, lines 62-73, called at line 219.
Publish ==
    /\ pc = "publish"
    /\ \/ /\ published' = published + 1
          /\ error' = error
       \/ /\ error' \in PublishErrors
          /\ published' = published
    /\ pc' = "finally"
    /\ UNCHANGED <<files, idx, game, flat_data, parsed_games, outdir, conn,
                   opened, setup_step>>

\* Finally with the publish moved into the finally block: the message goes
\* out on every path through it.
Finally_Publishing ==
    /\ pc = "finally"
    /\ published' = IF published = 0 THEN 1 ELSE published
    /\ conn' = "closed"
    /\ pc' = "done"
    /\ UNCHANGED <<files, idx, game, flat_data, parsed_games, outdir, opened,
                   setup_step, error>>

\* finally: connection.close(), lines 220-222; a pending exception then
\* leaves main.
Finally ==
    /\ pc = "finally"
    /\ conn' = "closed"
    /\ pc' = "done"
    /\ UNCHANGED <<files, idx, game, flat_data, parsed_games, outdir, opened,
                   setup_step, published, error>>

Next ==
    \/ Connect
    \/ Setup
    \/ ExtractorStart
    \/ ExtractorNext
    \/ Flatten
    \/ Save
    \/ AppendId
    \/ ProcessReturn
    \/ Publish
    \/ Finally

Spec == Init /\ [][Next]_vars


(***************************************************************************)
(* Properties of flatten_game, checked under SpecFlatten.                  *)
(***************************************************************************)
Called == flat_data.raised # "not called"
Rows == flat_data.rows

\* The parts of a document, read with no assumption on their shape.
Field(g, k) == DictGet(g, k, JNull)
ListItems(v) == IF v.t = "list" THEN v.items ELSE <<>>
Participations(g) == ListItems(Field(g, "players"))
RoundList(g) == ListItems(Field(g, "rounds"))
IdOf(p, k) ==
    IF IsDict(p) /\ IsDict(Field(p, k)) THEN Field(Field(p, k), "id") ELSE JNull
TeamsOf(g) ==
    {IdOf(Participations(g)[i], "team") : i \in DOMAIN Participations(g)} \ {JNull}
RosterOf(g, t) ==
    {IdOf(Participations(g)[i], "player") :
        i \in {j \in DOMAIN Participations(g) : IdOf(Participations(g)[j], "team") = t}}
    \ {JNull}

\* C1: flatten_game never ends in a raised error, whatever the document.
C1_NeverRaises == Called => flat_data.raised = ""

\* A well-formed match in the sense of the data model: every part has its
\* record shape, two teams of five distinct players name each other as
\* opponent, and each of the R >= 16 rounds carries a positive integer round
\* number (1 for the first), the two teams as its sides and one of them as
\* its winner.
RecordOrAbsent(g, k) == k \in DOMAIN g.f => IsDict(g.f[k])

WellFormedRound(r, teams) ==
    /\ IsDict(r)
    /\ Field(r, "round").t = "int" /\ Field(r, "round").n >= 1
    /\ {Field(r, "ct"), Field(r, "terrorists")} = teams
    /\ Field(r, "winner_team") \in teams
    /\ Hashable(Field(r, "outcome"))

WellFormedMatch(g) ==
    /\ Truthy(Field(g, "id"))
    /\ ParseOk(Field(g, "begin_at"))
    /\ IsDict(Field(g, "map")) /\ Truthy(Field(Field(g, "map"), "id"))
    /\ RecordOrAbsent(g, "match")
    /\ LET m == DictGet(g, "match", EmptyDict)
       IN /\ RecordOrAbsent(m, "league") /\ RecordOrAbsent(m, "tournament")
          /\ RecordOrAbsent(m, "serie")
          /\ Hashable(Field(DictGet(m, "serie", EmptyDict), "tier"))
    /\ Len(Participations(g)) = 10
    /\ Cardinality(TeamsOf(g)) = 2
    /\ \A i \in DOMAIN Participations(g) :
          LET p == Participations(g)[i]
          IN /\ IsDict(p)
             /\ IsDict(Field(p, "player")) /\ IsDict(Field(p, "team"))
             /\ IsDict(Field(p, "opponent"))
             /\ Truthy(IdOf(p, "player")) /\ Hashable(IdOf(p, "player"))
             /\ Truthy(IdOf(p, "team")) /\ Hashable(IdOf(p, "team"))
             /\ {IdOf(p, "team"), IdOf(p, "opponent")} = TeamsOf(g)
             /\ \A j \in DOMAIN Participations(g) :
                   j # i => IdOf(Participations(g)[j], "player") # IdOf(p, "player")
    /\ \A t \in TeamsOf(g) : Cardinality(RosterOf(g, t)) = 5
    /\ Len(RoundList(g)) >= 16
    /\ Field(RoundList(g)[1], "round") = JInt(1)
    /\ \A j \in DOMAIN RoundList(g) : WellFormedRound(RoundList(g)[j], TeamsOf(g))

RowsOfPair(t, p, q) ==
    {k \in DOMAIN Rows :
        Rows[k].team_id = t /\ Rows[k].player_id = p /\ Rows[k].player_opponent_id = q}

\* C2: a well-formed match of two teams of 5 and R rounds gives exactly
\* 5 x 5 x R x 2 rows: for each team's perspective, each of its players is
\* paired with each player of the other team once per round.
C2_RoundCount ==
    (Called /\ WellFormedMatch(game)) =>
        /\ flat_data.raised = ""
        /\ Len(Rows) = 5 * 5 * Len(RoundList(game)) * 2
        /\ \A t \in TeamsOf(game) : \A o \in TeamsOf(game) \ {t} :
              \A p \in RosterOf(game, t) : \A q \in RosterOf(game, o) :
                 /\ Cardinality(RowsOfPair(t, p, q)) = Len(RoundList(game))
                 /\ \A k \in RowsOfPair(t, p, q) : Rows[k].team_opponent_id = o

\* C2's case: a well-formed match of more than 16 rounds, numbered from 1
\* with the sides swapped in the second half, has been flattened.
C2_Witness ==
    /\ Called /\ WellFormedMatch(game)
    /\ Len(RoundList(game)) > 16
    /\ \E j \in DOMAIN RoundList(game) : Field(RoundList(game)[j], "ct") = T2
    /\ Len(Rows) = 50 * Len(RoundList(game))

\* The rejection conditions of C3, each read from the document alone.
NoId(g) == ~Truthy(Field(g, "id"))
BadBeginAt(g) == ~ParseOk(Field(g, "begin_at"))
NoMapId(g) ==
    \/ "map" \notin DOMAIN g.f
    \/ IsDict(g.f.map) /\ ~Truthy(Field(g.f.map, "id"))
WrongPlayerCount(g) ==
    Field(g, "players").t = "list" /\ Len(Participations(g)) # 10
TooFewRounds(g) == Field(g, "rounds").t = "list" /\ Len(RoundList(g)) < 16
FirstRoundNotOne(g) ==
    /\ RoundList(g) # <<>>
    /\ IsDict(RoundList(g)[1])
    /\ Field(RoundList(g)[1], "round") # JInt(1)

\* C3: a document with no id, an unparseable begin_at, no map id, a
\* participation list not of length 10, fewer than 16 rounds or a first
\* round not numbered 1 gives the empty list, whatever else it contains.
C3_WholeMatchRejection ==
    (Called /\ (NoId(game) \/ BadBeginAt(game) \/ NoMapId(game)
                \/ WrongPlayerCount(game) \/ TooFewRounds(game)
                \/ FirstRoundNotOne(game)))
        => flat_data = Return(<<>>)

\* C4: rows come only from a 5-versus-5 match: 10 participations, at least
\* 16 rounds, round 1 first, and exactly two teams in the participations,
\* each with exactly 5 distinct player ids.
C4_OnlyFiveVersusFive ==
    (Called /\ Rows # <<>>) =>
        /\ Len(Participations(game)) = 10
        /\ Len(RoundList(game)) >= 16
        /\ Field(RoundList(game)[1], "round") = JInt(1)
        /\ Cardinality(TeamsOf(game)) = 2
        /\ \A t \in TeamsOf(game) : Cardinality(RosterOf(game, t)) = 5

\* Row row can have been built from round rnd.
RowFromRound(row, rnd) ==
    /\ IsDict(rnd)
    /\ IntOk(Field(rnd, "round"))
    /\ row.round = JInt(PyInt(Field(rnd, "round")))
    /\ row.is_ct = BoolInt(row.team_id = Field(rnd, "ct"))
    /\ row.win = BoolInt(Field(rnd, "winner_team") = row.team_id)
    /\ row.outcome = Outcome(Field(rnd, "outcome"))

\* C9: every row for perspective (team, opponent) refers to a round whose
\* sides are exactly {team, opponent} as a set, whose round number is
\* present and whose winner is one of the two.
C9_RoundAcceptance ==
    \A k \in DOMAIN Rows :
        \E j \in DOMAIN RoundList(game) :
            LET rnd == RoundList(game)[j]
                pair == {Rows[k].team_id, Rows[k].team_opponent_id}
            IN /\ RowFromRound(Rows[k], rnd)
               /\ {Field(rnd, "ct"), Field(rnd, "terrorists")} = pair
               /\ Truthy(Field(rnd, "round"))
               /\ Field(rnd, "winner_team") \in pair

\* The statistic k of participation p as C10 states it: the value when
\* present, 0 when absent or null.
DefaultedStat(p, k) ==
    IF k \in DOMAIN p.f /\ p.f[k] # JNull THEN p.f[k] ELSE JInt(0)

\* C10: every row carries all ten statistics, each the value of the row
\* player's participation entry, or 0 when absent or null there.
C10_StatisticsDefaulting ==
    \A r \in DOMAIN Rows :
        /\ StatKeys \subseteq DOMAIN Rows[r]
        /\ \E i \in DOMAIN Participations(game) :
              /\ IdOf(Participations(game)[i], "player") = Rows[r].player_id
              /\ \A k \in StatKeys :
                    Rows[r][k] = DefaultedStat(Participations(game)[i], k)


(***************************************************************************)
(* Properties of process_games and of the run of main, checked under Spec. *)
(***************************************************************************)
\* The ids, in file order, of the documents of fs that flatten_game turns
\* into at least one row.
RECURSIVE ExpectedIds(_)
ExpectedIds(fs) ==
    IF fs = <<>> THEN <<>>
    ELSE LET n == Len(fs)
             before == ExpectedIds(SubSeq(fs, 1, n - 1))
             r == IF fs[n].ok THEN flatten_game(fs[n].doc) ELSE NoResult
         IN IF r.raised = "" /\ r.rows # <<>>
            THEN Append(before, Field(fs[n].doc, "id")) ELSE before

Consumed == SubSeq(files, 1, idx - 1)
NoParseable(fs) == \A i \in DOMAIN fs : ~fs[i].ok

\* process_games was entered, and it returned its list.
ProcessEntered == pc \notin {"init_rabbitmq", "setup", "extract"}
                  /\ error \notin (ConnectErrors \cup SetupErrors)
ProcessReturned ==
    \/ pc = "publish"
    \/ pc \in {"finally", "done"} /\ error \in ({""} \cup PublishErrors)

\* C5: process_games returns the ids, in extraction order, of the documents
\* with a non-empty flatten_game result; each one's rows are written as one
\* file named by its id before the id is appended and before the next
\* document is read; a document with no rows adds no id, no file, no error.
C5_BatchResult ==
    LET expected == ExpectedIds(Consumed)
    IN /\ ProcessReturned => idx > Len(files) /\ parsed_games = expected
       /\ pc = "next" => parsed_games = expected /\ error = ""
       /\ \A i \in DOMAIN parsed_games :
             LET name == FileName(parsed_games[i])
             IN /\ name \in DOMAIN outdir
                /\ outdir[name] # <<>>
                /\ \A k \in DOMAIN outdir[name] : outdir[name][k].game_id = parsed_games[i]
       /\ pc = "append" =>
             /\ game = files[idx - 1].doc
             /\ outdir[FileName(Field(game, "id"))] = flat_data.rows
             /\ Append(parsed_games, Field(game, "id")) = expected
       /\ DOMAIN outdir \subseteq {FileName(expected[i]) : i \in DOMAIN expected}

\* C5's case: process_games has returned two ids in file order, from a
\* directory that also held a document without rows.
C5_Witness ==
    /\ pc = "publish"
    /\ parsed_games = <<JStr("g2"), JStr("g1")>>
    /\ \E i \in DOMAIN files :
          files[i].ok /\ flatten_game(files[i].doc) = Return(<<>>)

\* C6 as stated: exactly one message whenever process_games returns, none
\* when it raises, never more than one, published after the batch and
\* before the connection is closed.
C6_ExactlyOneMessage ==
    /\ published <= 1
    /\ pc = "done" /\ ProcessEntered =>
          published = (IF ProcessReturned THEN 1 ELSE 0)
    /\ published = 1 => idx > Len(files) /\ (pc = "finally" => conn = "open")

\* C6 amended: publish_to_rabbitmq is reached exactly when process_games
\* returns, on an open connection and after every match was processed and
\* persisted; one message is published unless the publish call itself
\* raises, and then none; no message when process_games raises; never two.
C6_OneMessageUnlessPublishRaises ==
    /\ published <= 1
    /\ pc = "publish" => conn = "open" /\ published = 0
    /\ pc = "done" /\ ProcessEntered =>
          published = (IF ProcessReturned /\ error \notin PublishErrors THEN 1 ELSE 0)
    /\ published = 1 =>
          /\ pc \in {"finally", "done"}
          /\ idx > Len(files)
          /\ parsed_games = ExpectedIds(files)
          /\ \A i \in DOMAIN parsed_games : FileName(parsed_games[i]) \in DOMAIN outdir
          /\ pc = "finally" => conn = "open"

\* C6's case: a run that parsed at least one match has ended with its one
\* message published and the connection closed.
C6_Witness ==
    /\ pc = "done" /\ published = 1 /\ parsed_games # <<>> /\ conn = "closed"

\* C7: at most one connection is opened, and none is still open when the
\* run has ended, on every exit path.
C7_NoLeakedConnection ==
    /\ opened <= 1
    /\ pc = "done" => conn # "open"

====
